---- MODULE Spec2Model ----
(***************************************************************************)
(* Model of _misc/readme_update_helptext.py: main() captures the output of *)
(* `nitf-rename --help`, normalises and patches it, and splices it between  *)
(* the '.. BEGIN HELP TEXT' and '.. END HELP TEXT' markers of readme.rst.   *)
(*                                                                         *)
(* Text is a sequence of one-character strings.  Indices of the Python     *)
(* code are kept 0-based; Slice(s, i, j) is s[i:j].                         *)
(***************************************************************************)
EXTENDS Integers, Sequences, FiniteSets, TLC

(* ---------------------------- bounds ---------------------------------- *)

\* Largest number of pieces an initial readme.rst is built from.
MaxDocPieces == 3

\* Largest number of pieces the tool's stdout is built from.
MaxOutPieces == 2

\* Number of times main() is run in succession.
MaxRuns == 2

(* --------------------------- literals --------------------------------- *)

COMMAND_NAME ==
    <<"n", "i", "t", "f", "-", "r", "e", "n", "a", "m", "e">>

help_begin_text ==
    <<".", ".", " ", "B", "E", "G", "I", "N", " ",
      "H", "E", "L", "P", " ", "T", "E", "X", "T">>

help_end_text ==
    <<".", ".", " ", "E", "N", "D", " ",
      "H", "E", "L", "P", " ", "T", "E", "X", "T">>

\* 'usage: ' + COMMAND_NAME
UsageOld ==
    <<"u", "s", "a", "g", "e", ":", " ">> \o COMMAND_NAME

\* 'usage::\n' '\n' '       ' + COMMAND_NAME
UsageNew ==
    <<"u", "s", "a", "g", "e", ":", ":", "\n", "\n",
      " ", " ", " ", " ", " ", " ", " ">> \o COMMAND_NAME

\* "{none,auto,git,hg,svn}"
ChoicesOld ==
    <<"{", "n", "o", "n", "e", ",", "a", "u", "t", "o", ",",
      "g", "i", "t", ",", "h", "g", ",", "s", "v", "n", "}">>

\* "<none,auto,git,hg,svn>"
ChoicesNew ==
    <<"<", "n", "o", "n", "e", ",", "a", "u", "t", "o", ",",
      "g", "i", "t", ",", "h", "g", ",", "s", "v", "n", ">">>

\* The grave accent character (written as a name: the character itself
\* cannot appear inside a string).
GRAVE == "GRAVE"

\* '\nOutput of ' + two grave accents + COMMAND_NAME + ' --help'
\* + two grave accents + '\n\n'
HeadingText ==
    <<"\n", "O", "u", "t", "p", "u", "t", " ", "o", "f", " ", GRAVE, GRAVE>>
    \o COMMAND_NAME
    \o <<" ", "-", "-", "h", "e", "l", "p", GRAVE, GRAVE, "\n", "\n">>

\* Characters str.rstrip() removes.
Whitespace == {" ", "\t", "\n", "\r"}

(* ----------------------- Python string helpers ------------------------ *)

Min(a, b) == IF a < b THEN a ELSE b

Max(a, b) == IF a > b THEN a ELSE b

\* s[i:j] for non-negative i, j (clamped to the length, as Python does).
Slice(s, i, j) ==
    LET lo == Min(i, Len(s))
        hi == Min(j, Len(s))
    IN  IF hi <= lo THEN <<>> ELSE SubSeq(s, lo + 1, hi)

\* s[i:]
From(s, i) == Slice(s, i, Len(s))

\* s[i:i+len(sub)] == sub (the first character is compared first).
OccursAt(s, sub, i) ==
    IF sub # <<>> /\ (i >= Len(s) \/ s[i + 1] # sub[1]) THEN FALSE
    ELSE Slice(s, i, i + Len(sub)) = sub

\* s.find(sub, start): lowest index >= start where sub occurs, else -1.
\* A negative start counts from the end and is clamped to 0.
Find(s, sub, start) ==
    LET st   == IF start < 0 THEN Max(start + Len(s), 0) ELSE start
        hits == {i \in st..(Len(s) - Len(sub)) : OccursAt(s, sub, i)}
    IN  IF hits = {} THEN -1
        ELSE CHOOSE i \in hits : \A j \in hits : i <= j

\* s.rstrip()
RECURSIVE RStrip(_)
RStrip(s) ==
    IF s = <<>> THEN <<>>
    ELSE IF s[Len(s)] \in Whitespace THEN RStrip(SubSeq(s, 1, Len(s) - 1))
    ELSE s

\* Length of the run of ' ' / '\t' at the head of s.
RECURSIVE BlankRun(_)
BlankRun(s) ==
    IF s # <<>> /\ Head(s) \in {" ", "\t"} THEN 1 + BlankRun(Tail(s)) ELSE 0

\* re.sub(r'[ \t]+(\n|\Z)', r'\1', s): drop every run of blanks that is
\* followed by a newline or by the end of the text.
RECURSIVE StripTrailingSpace(_)
StripTrailingSpace(s) ==
    IF s = <<>> THEN <<>>
    ELSE LET n    == BlankRun(s)
             rest == From(s, n)
         IN  IF n = 0 THEN <<Head(s)>> \o StripTrailingSpace(Tail(s))
             ELSE IF rest = <<>> \/ Head(rest) = "\n"
                  THEN StripTrailingSpace(rest)
                  ELSE Slice(s, 0, n) \o StripTrailingSpace(rest)

\* s.replace(old, new): every non-overlapping occurrence, left to right.
RECURSIVE Replace(_, _, _)
Replace(s, old, new) ==
    IF Len(s) < Len(old) THEN s
    ELSE IF OccursAt(s, old, 0)
         THEN new \o Replace(From(s, Len(old)), old, new)
         ELSE <<Head(s)>> \o Replace(Tail(s), old, new)

(* --------------------------- transformer ------------------------------ *)

\* First replace of patch_help_test: the usage line.
PatchUsage(help) == Replace(help, UsageOld, UsageNew)

\* s.replace(old, new, 1): only the first occurrence.
ReplaceFirst(s, old, new) ==
    LET i == Find(s, old, 0)
    IN  IF i = -1 THEN s
        ELSE Slice(s, 0, i) \o new \o From(s, i + Len(old))

\* A patch that rewrites only the first choice token.
PatchChoices_FirstOnly(help) == ReplaceFirst(help, ChoicesOld, ChoicesNew)

\* Second replace of patch_help_test: the choice token.
PatchChoices(help) == Replace(help, ChoicesOld, ChoicesNew)

patch_help_test(help) == PatchChoices(PatchUsage(help))

\* p.stdout.decode('utf-8').rstrip() + '\n\n', then the re.sub.
Normalize(out) == StripTrailingSpace(RStrip(out) \o <<"\n", "\n">>)

\* A heading without the blank line after it.
AddHeading_NoBlank(help) == Slice(HeadingText, 0, Len(HeadingText) - 1) \o help

\* The heading is put in front of the patched text.
AddHeading(help) == HeadingText \o help

(* ----------------------------- splicer -------------------------------- *)

\* help_begin_index += len(help_begin_text) + 1
InsertionPoint(begin_index) == begin_index + Len(help_begin_text) + 1

\* A splice that inserts the text and keeps the old region.
DataUpdate_KeepOld(d, begin_index, help, end_index) ==
    Slice(d, 0, begin_index) \o help \o From(d, begin_index)

\* A splice that resumes after the end marker instead of at it.
DataUpdate_DropEnd(d, begin_index, help, end_index) ==
    Slice(d, 0, begin_index) \o help \o From(d, end_index + Len(help_end_text))

\* data[:help_begin_index] + help_output + data[help_end_index:]
DataUpdate(d, begin_index, help, end_index) ==
    Slice(d, 0, begin_index) \o help \o From(d, end_index)

(* ------------------------------ inputs -------------------------------- *)

\* Every concatenation of at most n pieces of P.
RECURSIVE Concats(_, _)
Concats(P, n) ==
    IF n = 0 THEN {<<>>}
    ELSE {<<>>} \cup {p \o r : p \in P, r \in Concats(P, n - 1)}

\* Pieces of a readme.rst: the begin marker, bare and with a line terminator
\* after it, the end marker, and a line of other text.
DocPieces ==
    {help_begin_text, help_begin_text \o <<"\n">>, help_end_text,
     <<"x", "\n">>}

\* What the tool prints in the runs of main(): a usage line, or a text with
\* the end marker in it.
RunOutputs == {UsageOld \o <<"\n">>, help_end_text}

\* Pieces of the tool's stdout in the runs of the transformer.
OutPieces ==
    {UsageOld, ChoicesOld, <<"{", "a", ",", "b", "}">>,
     <<" ">>, <<"\n">>, <<"x">>}

\* Exit statuses of the child process.
ExitCodes == {0, 1}

(* ------------------------------ state --------------------------------- *)

VARIABLES
    file,              \* content of readme.rst on disk
    pc,                \* position in main()
    p_stdout,          \* p.stdout
    p_returncode,      \* p.returncode
    help_output,
    data,
    help_begin_index,
    help_end_index,
    data_update,
    printed,           \* marker named by the error message, <<>> if none
    runs,              \* number of the current run of main()
    orig,              \* readme.rst when the current run started
    first,             \* readme.rst before the first run
    prev               \* <<stdout>> of the previous run if it wrote the file
vars ==
    <<file, pc, p_stdout, p_returncode, help_output, data, help_begin_index,
      help_end_index, data_update, printed, runs, orig, first, prev>>

locals ==
    <<p_stdout, p_returncode, help_output, data, help_begin_index,
      help_end_index, data_update, printed>>

history == <<runs, orig, first, prev>>

\* A fresh process: nothing assigned, nothing printed.
Fresh ==
    /\ p_stdout = <<>>
    /\ p_returncode = 0
    /\ help_output = <<>>
    /\ data = <<>>
    /\ help_begin_index = 0
    /\ help_end_index = 0
    /\ data_update = <<>>
    /\ printed = <<>>

Init ==
    /\ file \in Concats(DocPieces, MaxDocPieces)
    /\ pc = "run"
    /\ Fresh
    /\ runs = 1
    /\ orig = file
    /\ first = file
    /\ prev = <<>>

(* ------------------------------ main() -------------------------------- *)

\* subprocess.run: the child ran and exited with some status; its stdout is
\* captured.  No check=True and no test of p.returncode follows.
Run(outputs) ==
    /\ pc = "run"
    /\ \E out \in outputs, rc \in ExitCodes :
          /\ p_stdout' = out
          /\ p_returncode' = rc
    /\ pc' = "normalize"
    /\ UNCHANGED <<file, help_output, data, help_begin_index, help_end_index,
                   data_update, printed, history>>

\* subprocess.run: 'python3' cannot be executed; the exception ends main().
RunRaises ==
    /\ pc = "run"
    /\ pc' = "raised"
    /\ UNCHANGED <<file, locals, history>>

NormalizeOutput ==
    /\ pc = "normalize"
    /\ help_output' = Normalize(p_stdout)
    /\ pc' = "patch"
    /\ UNCHANGED <<file, p_stdout, p_returncode, data, help_begin_index,
                   help_end_index, data_update, printed, history>>

PatchHelp ==
    /\ pc = "patch"
    /\ help_output' = patch_help_test(help_output)
    /\ pc' = "heading"
    /\ UNCHANGED <<file, p_stdout, p_returncode, data, help_begin_index,
                   help_end_index, data_update, printed, history>>

Heading ==
    /\ pc = "heading"
    /\ help_output' = AddHeading(help_output)
    /\ pc' = "read"
    /\ UNCHANGED <<file, p_stdout, p_returncode, data, help_begin_index,
                   help_end_index, data_update, printed, history>>

ReadFile ==
    /\ pc = "read"
    /\ data' = file
    /\ pc' = "locate"
    /\ UNCHANGED <<file, p_stdout, p_returncode, help_output,
                   help_begin_index, help_end_index, data_update, printed,
                   history>>

\* A search for the end marker that starts at the top of the file.
Locate_FromTop ==
    /\ pc = "locate"
    /\ help_begin_index' = Find(data, help_begin_text, 0)
    /\ help_end_index' = Find(data, help_end_text, 0)
    /\ pc' = "check_begin"
    /\ UNCHANGED <<file, p_stdout, p_returncode, help_output, data,
                   data_update, printed, history>>

Locate ==
    /\ pc = "locate"
    /\ help_begin_index' = Find(data, help_begin_text, 0)
    /\ help_end_index' = Find(data, help_end_text, help_begin_index')
    /\ pc' = "check_begin"
    /\ UNCHANGED <<file, p_stdout, p_returncode, help_output, data,
                   data_update, printed, history>>

\* A begin-marker check that reports the error and carries on.
CheckBegin_NoReturn ==
    /\ pc = "check_begin"
    /\ printed' = IF help_begin_index = -1 THEN help_begin_text ELSE printed
    /\ pc' = "check_end"
    /\ UNCHANGED <<file, p_stdout, p_returncode, help_output, data,
                   help_begin_index, help_end_index, data_update, history>>

CheckBegin ==
    /\ pc = "check_begin"
    /\ IF help_begin_index = -1
       THEN /\ printed' = help_begin_text
            /\ pc' = "returned"
       ELSE /\ printed' = printed
            /\ pc' = "check_end"
    /\ UNCHANGED <<file, p_stdout, p_returncode, help_output, data,
                   help_begin_index, help_end_index, data_update, history>>

CheckEnd ==
    /\ pc = "check_end"
    /\ IF help_end_index = -1
       THEN /\ printed' = help_end_text
            /\ pc' = "returned"
       ELSE /\ printed' = printed
            /\ pc' = "advance"
    /\ UNCHANGED <<file, p_stdout, p_returncode, help_output, data,
                   help_begin_index, help_end_index, data_update, history>>

Advance ==
    /\ pc = "advance"
    /\ help_begin_index' = InsertionPoint(help_begin_index)
    /\ pc' = "assemble"
    /\ UNCHANGED <<file, p_stdout, p_returncode, help_output, data,
                   help_end_index, data_update, printed, history>>

Assemble ==
    /\ pc = "assemble"
    /\ data_update' =
          DataUpdate(data, help_begin_index, help_output, help_end_index)
    /\ pc' = "open"
    /\ UNCHANGED <<file, p_stdout, p_returncode, help_output, data,
                   help_begin_index, help_end_index, printed, history>>

\* open('readme.rst', 'w') truncates the file.
OpenForWrite ==
    /\ pc = "open"
    /\ file' = <<>>
    /\ pc' = "write"
    /\ UNCHANGED <<locals, history>>

\* A write of the help text alone.
WriteFile_HelpOnly ==
    /\ pc = "write"
    /\ file' = help_output
    /\ pc' = "written"
    /\ UNCHANGED <<locals, history>>

\* f.write(data_update) and the close at the end of the with block.
WriteFile ==
    /\ pc = "write"
    /\ file' = data_update
    /\ pc' = "written"
    /\ UNCHANGED <<locals, history>>

\* The script is started again: a new process, the file as it was left.
RunAgain ==
    /\ pc \in {"written", "returned", "raised"}
    /\ runs < MaxRuns
    /\ runs' = runs + 1
    /\ orig' = file
    /\ prev' = IF pc = "written" THEN <<p_stdout>> ELSE <<>>
    /\ pc' = "run"
    /\ p_stdout' = <<>>
    /\ p_returncode' = 0
    /\ help_output' = <<>>
    /\ data' = <<>>
    /\ help_begin_index' = 0
    /\ help_end_index' = 0
    /\ data_update' = <<>>
    /\ printed' = <<>>
    /\ UNCHANGED <<file, first>>

RunMain == Run(RunOutputs)

Next ==
    \/ RunMain
    \/ RunRaises
    \/ NormalizeOutput
    \/ PatchHelp
    \/ Heading
    \/ ReadFile
    \/ Locate
    \/ CheckBegin
    \/ CheckEnd
    \/ Advance
    \/ Assemble
    \/ OpenForWrite
    \/ WriteFile
    \/ RunAgain

Spec == Init /\ [][Next]_vars

(* ------------------------- transformer runs --------------------------- *)

RunHelp == Run(Concats(OutPieces, MaxOutPieces))

\* A readme.rst with the markers on lines of their own.
InitT ==
    /\ Init
    /\ file = help_begin_text \o <<"\n">> \o help_end_text

NextT ==
    \/ RunHelp
    \/ NormalizeOutput
    \/ PatchHelp
    \/ Heading

SpecT == InitT /\ [][NextT]_vars

(* ------------------------ vocabulary of the claims --------------------- *)

\* 0-based indices at which sub occurs in d.
Occ(d, sub) ==
    {i \in 0..(Len(d) - Len(sub)) :
        d[i + 1] = sub[1] /\ SubSeq(d, i + 1, i + Len(sub)) = sub}

Least(S) == CHOOSE i \in S : \A j \in S : i <= j

\* Index of the first begin marker of d (only used where there is one).
FirstBegin(d) == Least(Occ(d, help_begin_text))

\* Indices of the end markers after the first begin marker.
EndsAfter(d) ==
    IF Occ(d, help_begin_text) = {} THEN {}
    ELSE {i \in Occ(d, help_end_text) : i >= FirstBegin(d)}

FirstEnd(d) == Least(EndsAfter(d))

\* Both markers, in order.
Spliceable(d) == EndsAfter(d) # {}

\* d[:n] and d[n:], written with SubSeq.
Upto(d, n) == SubSeq(d, 1, n)

After(d, n) == SubSeq(d, n + 1, Len(d))

\* Positions of main() at which the write statements have been reached.
Writing == {"open", "write", "written"}

\* Positions of main() that come before the file is opened for writing.
BeforeWrite ==
    {"run", "raised", "normalize", "patch", "heading", "read", "locate",
     "check_begin", "check_end", "returned", "advance", "assemble", "open"}

\* 'Output of ``nitf-rename --help``', the heading line without terminator.
HeadingLine ==
    <<"O", "u", "t", "p", "u", "t", " ", "o", "f", " ", GRAVE, GRAVE,
      "n", "i", "t", "f", "-", "r", "e", "n", "a", "m", "e",
      " ", "-", "-", "h", "e", "l", "p", GRAVE, GRAVE>>

IsPrefix(a, b) == Len(a) <= Len(b) /\ SubSeq(b, 1, Len(a)) = a

\* C1: a successful splice writes PRE + begin marker + line terminator + X +
\* the original from the first end marker after the begin marker onward.
C1_SpliceExact ==
    pc = "written" =>
        file = Upto(orig, FirstBegin(orig)) \o help_begin_text \o <<"\n">>
               \o help_output \o After(orig, FirstEnd(orig))

\* C2: after a successful splice everything up to the end of the begin
\* marker and everything from the end marker onward is the original, and
\* nothing outside the region between them is dropped or duplicated: the
\* file is a prefix of the original that ends between the two markers, the
\* spliced text, and the original from the end marker onward.
C2_Frame ==
    pc = "written" =>
        LET b == FirstBegin(orig)
            e == FirstEnd(orig)
            k == Len(file) - Len(help_output) - (Len(orig) - e)
        IN  /\ b + Len(help_begin_text) <= k
            /\ k <= e
            /\ file = Upto(orig, k) \o help_output \o After(orig, e)

\* The content main() is to write for readme.rst d and tool output out.
NewContent(d, out) ==
    Upto(d, FirstBegin(d) + Len(help_begin_text) + 1)
    \o HeadingText \o patch_help_test(Normalize(out))
    \o After(d, FirstEnd(d))

\* C3: a second run with the same tool output leaves the file as the first
\* run left it.
C3_Idempotent ==
    (pc = "written" /\ prev = <<p_stdout>>) => file = orig

\* C3 (amended): a second run with the same tool output leaves the file as
\* the first run left it, provided the spliced text holds no end marker.
C3_IdempotentNoEndInText ==
    (pc = "written" /\ prev = <<p_stdout>>
        /\ Occ(help_output, help_end_text) = {}) => file = orig

C3_Witness ==
    /\ pc = "written"
    /\ prev = <<p_stdout>>
    /\ Occ(help_output, help_end_text) = {}
    /\ Occ(p_stdout, UsageOld) # {}
    /\ file = orig
    /\ file # first

\* C4: without a begin marker main() names the begin marker in its error,
\* never reaches the write and leaves the file as it was, with or without
\* an end marker in the file.
C4_MissingBegin ==
    Occ(orig, help_begin_text) = {} =>
        /\ file = orig
        /\ pc \notin {"check_end", "advance", "assemble"} \cup Writing
        /\ pc = "returned" => printed = help_begin_text

C4_Witness ==
    /\ pc = "returned"
    /\ Occ(orig, help_begin_text) = {}
    /\ Occ(orig, help_end_text) # {}
    /\ printed = help_begin_text
    /\ file = orig

\* C5: with a begin marker and no end marker after the first begin marker,
\* main() names the end marker in its error, never reaches the write and
\* leaves the file as it was.
C5_MissingEnd ==
    (Occ(orig, help_begin_text) # {} /\ EndsAfter(orig) = {}) =>
        /\ file = orig
        /\ pc \notin {"advance", "assemble"} \cup Writing
        /\ pc = "returned" => printed = help_end_text

C5_Witness ==
    /\ pc = "returned"
    /\ Occ(orig, help_begin_text) # {}
    /\ Occ(orig, help_end_text) # {}
    /\ EndsAfter(orig) = {}
    /\ printed = help_end_text
    /\ file = orig

\* C6: when the command cannot be run or exits with a non-success status,
\* main() never reaches the write and the file is left as it was.
C6_InvocationFailure ==
    (pc = "raised" \/ p_returncode # 0) =>
        /\ pc \notin Writing
        /\ file = orig

\* C7: before the write the file is the original, after it the file is the
\* spliced content, and the file never holds anything else.
C7_OriginalOrSpliced ==
    /\ pc \in BeforeWrite => file = orig
    /\ pc = "written" => file = NewContent(orig, p_stdout)
    /\ file = orig \/ (Spliceable(orig) /\ file = NewContent(orig, p_stdout))

\* C7 (amended): the file is opened for writing only after the new content
\* is assembled from the command's output and both markers; until then the
\* file is the original, also in every run that ends in an error; after the
\* write it is the new content; between the truncating open and the write
\* it is empty, a proper prefix of the new content.
C7_WriteLast ==
    /\ pc \in BeforeWrite => file = orig
    /\ pc \in {"returned", "raised"} => file = orig
    /\ pc \in Writing =>
          /\ Spliceable(orig)
          /\ data_update = NewContent(orig, p_stdout)
    /\ pc = "write" => (file = <<>> /\ IsPrefix(file, data_update))
    /\ pc = "written" => file = NewContent(orig, p_stdout)

C7_Witness ==
    /\ pc = "write"
    /\ file = <<>>
    /\ orig # <<>>
    /\ data_update = NewContent(orig, p_stdout)
    /\ Len(data_update) > Len(orig)

\* A brace token: '{', alternatives without blanks, '}'.
HasBraceToken(s) ==
    \E i, j \in 1..Len(s) :
        /\ i < j
        /\ s[i] = "{"
        /\ s[j] = "}"
        /\ \A k \in (i + 1)..(j - 1) : s[k] \notin {"{", "}", " ", "\n", "\t"}

\* The text the second rule of the transformer is applied to.
ChoicesInput == PatchUsage(Normalize(p_stdout))

\* C8: after rule 2 no token in brace notation is left.
C8_EveryBraceToken ==
    pc = "heading" => ~HasBraceToken(help_output)

\* C8 (amended): rule 2 rewrites the outer braces of every occurrence of
\* the one literal token {none,auto,git,hg,svn} to angle brackets and leaves
\* every other character, other brace tokens included, as it was.
C8_LiteralToken ==
    pc = "heading" =>
        LET in   == ChoicesInput
            hits == Occ(in, ChoicesOld)
        IN  /\ Len(help_output) = Len(in)
            /\ \A i \in 1..Len(in) :
                  help_output[i] =
                     IF (i - 1) \in hits THEN "<"
                     ELSE IF (i - Len(ChoicesOld)) \in hits THEN ">"
                     ELSE in[i]

C8_Witness ==
    /\ pc = "heading"
    /\ Cardinality(Occ(ChoicesInput, ChoicesOld)) = 1
    /\ Occ(help_output, ChoicesNew) # {}
    /\ Occ(help_output, ChoicesOld) = {}
    /\ HasBraceToken(help_output)

\* Positions of main() at which the heading has been added.
Headed ==
    {"read", "locate", "check_begin", "check_end", "returned", "advance",
     "assemble"} \cup Writing

\* C9: the spliced text begins with the heading line, and two blank lines
\* follow the heading line.
C9_HeadingFirst ==
    pc \in Headed =>
        IsPrefix(HeadingLine \o <<"\n", "\n", "\n">>, help_output)

\* C9 (amended): the spliced text is an empty line, the heading line, one
\* blank line, and then the normalised and patched help text; that text is
\* what the file holds at the insertion point after the write.
C9_HeadingAfterEmptyLine ==
    pc \in Headed =>
        /\ help_output = <<"\n">> \o HeadingLine \o <<"\n", "\n">>
                         \o patch_help_test(Normalize(p_stdout))
        /\ pc = "written" =>
              IsPrefix(<<"\n">> \o HeadingLine \o <<"\n", "\n">>,
                       After(file, FirstBegin(orig)
                                   + Len(help_begin_text) + 1))

C9_Witness ==
    /\ pc = "written"
    /\ Occ(p_stdout, UsageOld) # {}
    /\ Occ(file, HeadingLine \o <<"\n", "\n", "u", "s", "a", "g", "e", ":", ":">>)
          # {}

\* C10: from a file with both markers in order, at every position of every
\* run but the moment between open and write, the first begin marker is
\* where it was at first, an end marker follows it, and no run reports a
\* missing marker.
C10_MarkersKept ==
    (Spliceable(first) /\ pc # "write") =>
        /\ Occ(file, help_begin_text) # {}
        /\ FirstBegin(file) = FirstBegin(first)
        /\ Spliceable(file)
        /\ printed = <<>>
        /\ pc # "returned"

C10_Witness ==
    /\ runs = MaxRuns
    /\ pc = "written"
    /\ prev # <<>>
    /\ prev # <<p_stdout>>
    /\ Occ(help_output, help_end_text) # {}
    /\ Spliceable(file)
    /\ file # first

====
